---- MODULE Spec2Model ----
(***************************************************************************)
(* Model of nodes/auto/downloader.py: AutoModelDownloader.                 *)
(*                                                                         *)
(* The main thread runs process(); _run_async_in_thread hands a task to    *)
(* the one-thread executor and waits for its future with a timeout.  The   *)
(* executor thread is a separate process of the model, so that a task can  *)
(* outlive the wait that submitted it.  The dicts of the lookup batch are  *)
(* shared between the main thread (self.missing_models) and the task       *)
(* (models_list) while the main thread waits for the task.                 *)
(***************************************************************************)
EXTENDS Integers, Sequences, FiniteSets, TLC

(* ------------------------------ bounds --------------------------------- *)
MaxScan == 3          \* longest list scan_workflow returns
MaxBlob == 2          \* longest list of a persisted blob
TickStep == 30        \* granularity of the clock of the timed specification
MaxMerge == 2         \* longest list given to _update_model_list on its own

(* ------------------------- program constants --------------------------- *)
Timeout == 60                           \* future.result(timeout=60)
ScanFirst == "Scan First"
ResolverType == "Auto Model Downloader"
NoValidModels == "No valid models found"

(* ------------------------------ inputs --------------------------------- *)
Filenames == {"a.safetensors", "b.safetensors"}
Refs == {[filename |-> "a.safetensors", local_path |-> "checkpoints"],
         [filename |-> "a.safetensors", local_path |-> "loras"],
         [filename |-> "b.safetensors", local_path |-> "checkpoints"]}
Repos == {"org/r1", "org/r2"}
NoRepo == "(absent)"                    \* a dict without the key 'repo_id'
LookupOutcomes == Repos \cup {"none", "raise"}
Selections == Filenames \cup {ScanFirst, ""}
NodeIds == {1, 2}
ClassTypes == {ResolverType, "CheckpointLoaderSimple"}
Prompts == {p \in UNION {[S -> ClassTypes] : S \in {{1}, {1, 2}}} :
              p[1] # ResolverType}
\* the dicts scan_workflow returns: filename and local_path, no repo_id
Scanned(ref) == [filename |-> ref.filename, local_path |-> ref.local_path,
                 repo_id |-> NoRepo]
\* persisted blobs from elsewhere: entries with and without a repo_id
BlobEntries ==
  {[filename |-> "a.safetensors", local_path |-> "checkpoints",
    repo_id |-> NoRepo],
   [filename |-> "a.safetensors", local_path |-> "loras",
    repo_id |-> "org/r1"],
   [filename |-> "b.safetensors", local_path |-> "checkpoints",
    repo_id |-> "org/r2"]}
ScanLists == UNION {[1..n -> {Scanned(r) : r \in Refs}] : n \in 0..MaxScan}

(* --------------------------- Python values ----------------------------- *)
NoneV == [isNone |-> TRUE, val |-> <<>>]
Value(v) == [isNone |-> FALSE, val |-> v]
OrEmpty(v) == IF v.isNone THEN <<>> ELSE v.val          \* "x or []"
Return(r, f, p) == <<"return", r, f, p>>
Raise(msg) == <<"raise", msg>>
NoResult == <<"none">>
NoHash == <<"None">>
NotADict == [__class__ |-> "list"]      \* a value without the method get
IsDict(data) == "__class__" \notin DOMAIN data

(* --------------------------- pure functions ---------------------------- *)
\* json.dumps(filtered_prompt, sort_keys=True): the pairs in key order
RECURSIVE JsonDumps(_, _)
JsonDumps(prompt, keys) ==
  IF keys = {} THEN <<>>
  ELSE LET k == CHOOSE x \in keys : \A y \in keys : x <= y
       IN <<<<k, prompt[k]>>>> \o JsonDumps(prompt, keys \ {k})

\* hashlib.md5 is modelled as injective on the dumped text
GetWorkflowHash(prompt) ==
  LET filtered == {k \in DOMAIN prompt : prompt[k] # ResolverType}
  IN <<"md5", JsonDumps(prompt, filtered)>>

\* a scan result that is stored as it came
KeepAllModels(models, seen) == models

\* the list comprehension of line 97: first occurrence of each identity
RECURSIVE UniqueModels(_, _)
UniqueModels(models, seen) ==
  IF models = <<>> THEN <<>>
  ELSE LET m == Head(models)
           identifier == <<m.filename, m.local_path>>
       IN IF identifier \in seen
          THEN UniqueModels(Tail(models), seen)
          ELSE <<m>> \o UniqueModels(Tail(models), seen \cup {identifier})

\* index of the first existing model the inner loop of _update_model_list
\* stops at, 0 when the loop runs to its else branch
FirstMatch(existing, model) ==
  LET hits == {i \in 1..Len(existing) : existing[i].filename = model.filename}
  IN IF hits = {} THEN 0 ELSE CHOOSE i \in hits : \A j \in hits : i <= j

\* _update_model_list(models) on self.missing_models = existing; with
\* aliased = TRUE models is the very list self.missing_models (line 128),
\* so the k-th model is read from the list as updated so far
RECURSIVE UpdateModelList(_, _, _, _)
UpdateModelList(existing, models, k, aliased) ==
  IF k > (IF aliased THEN Len(existing) ELSE Len(models)) THEN existing
  ELSE LET model == IF aliased THEN existing[k] ELSE models[k]
           i == FirstMatch(existing, model)
       IN IF i # 0
          THEN UpdateModelList([existing EXCEPT ![i].repo_id = model.repo_id],
                               models, k + 1, aliased)
          ELSE UpdateModelList(Append(existing, model), models, k + 1, aliased)

(* ------------------------------- state --------------------------------- *)
VARIABLES
  missing_models,       \* self.missing_models
  initialized,          \* self.initialized
  last_workflow_hash,   \* self.last_workflow_hash
  pc,                   \* main thread: "idle", "scanWait", "searchWait"
  current_hash,         \* local of process()
  fut,                  \* the future the main thread waits for
  queue,                \* work queue of self._executor
  running,              \* the task on the executor's one thread
  result,               \* what the last process() returned or raised
  waited,               \* time spent in the current future.result()
  elapsed,              \* time since the last process() began
  h                     \* history of the last process() call

cache == <<missing_models, initialized, last_workflow_hash>>
main == <<pc, current_hash, result>>
exec == <<fut, queue, running>>
clock == <<waited, elapsed>>
vars == <<missing_models, initialized, last_workflow_hash, pc, current_hash,
          fut, queue, running, result, waited, elapsed, h>>

Idle == [kind |-> "idle", models |-> <<>>, idx |-> 0, results |-> <<>>,
         log |-> <<>>, awaited |-> FALSE]
Task(kind, models) == [kind |-> kind, models |-> models, idx |-> 1,
                       results |-> <<>>, log |-> <<>>, awaited |-> TRUE]
\* h is the history the properties speak about.  path is the last operation
\* on the node: "cycle" or "select" for the two branches of process(),
\* "roundtrip" and "restore" for deserialize.  Of the last call of
\* process(): the tasks it submitted, whether the
\* graph had changed, whether the requested selection was a resolved entry
\* of the cache (selKnown), whether the call before it was a full cycle on
\* the same fingerprint that resolved the requested selection (again), which
\* waits timed out, whether the scan returned duplicates, whether send_sync
\* raised, the selection of a selection call (sel), whether a task that had
\* lost its waiter completed since the last full cycle began or, once it
\* has returned, since it returned (late).  Of the last full
\* cycle: its fingerprint, the batch it looked up with the outcome of each
\* lookup, and how many operations on the cache came after it (2 stands for
\* two or more).  Of a restore: the blob it was given.  Of a call of
\* _update_model_list on its own: the list before it (prior) and its argument
\* (batch).  Of a full cycle that follows a full cycle that recorded the hash
\* of another graph: the filenames the cache resolved when it began (known).
NoHistory == [path |-> "none", submitted |-> 0, changed |-> FALSE,
              selKnown |-> FALSE, again |-> FALSE,
              scanTimedOut |-> FALSE, searchTimedOut |-> FALSE,
              dups |-> FALSE, notifyFailed |-> FALSE, sel |-> "",
              late |-> FALSE, hash |-> NoHash, batch |-> <<>>, log |-> <<>>,
              since |-> 2, blob |-> NotADict, prior |-> <<>>,
              known |-> {}]

Init ==
  /\ missing_models = <<>>
  /\ initialized = FALSE
  /\ last_workflow_hash = NoHash
  /\ pc = "idle"
  /\ current_hash = NoHash
  /\ fut = [done |-> FALSE, ret |-> NoneV, log |-> <<>>]
  /\ queue = <<>>
  /\ running = Idle
  /\ result = NoResult
  /\ waited = 0
  /\ elapsed = 0
  /\ h = NoHistory

(* ------------------------- _run_async_in_thread ------------------------ *)
Pending == [done |-> FALSE, ret |-> NoneV, log |-> <<>>]

\* self._executor.submit(run_in_thread), line 63
Submit(q, task) == Append(q, task)

\* future.cancel(), line 68: a task still in the queue never runs, a task
\* that is running is not interrupted and loses its waiter
\* a cancel that leaves the queued task in the queue
CancelNothing == queue

CancelQueue == <<>>
CancelRunning == IF queue = <<>> THEN [running EXCEPT !.awaited = FALSE]
                 ELSE running

\* a wait that hands over what the task has resolved so far when it gives up
WaitResultPartial(timedOut) ==
  IF ~timedOut THEN fut.ret
  ELSE IF running.kind = "search" /\ queue = <<>>
       THEN Value([k \in 1..Len(running.results) |->
                     running.models[running.results[k]]])
       ELSE NoneV

\* what future.result(timeout=60) hands to the caller, lines 64-69
WaitResult(timedOut) == IF timedOut THEN NoneV ELSE fut.ret

(* ------------------------------ process -------------------------------- *)
\* a branch that forgets the comparison of the fingerprints
NeedsScanIgnoringChange(sel, workflow_changed) == sel = "" \/ sel = ScanFirst

\* a full cycle for a changed graph only
NeedsScanOnlyOnChange(sel, workflow_changed) == workflow_changed

\* line 77
NeedsScan(sel, workflow_changed) ==
  sel = "" \/ sel = ScanFirst \/ workflow_changed

\* a selection that does not look at repo_id
SelectAnyEntry(models, sel) ==
  LET i == FirstMatch(models, [filename |-> sel])
  IN IF sel = "" \/ sel = ScanFirst THEN Raise("Select a model")
     ELSE IF i = 0 THEN Raise("Model not found")
     ELSE Return(models[i].repo_id, models[i].filename, models[i].local_path)

\* lines 145-165: the selection branch
Select(models, sel) ==
  LET i == FirstMatch(models, [filename |-> sel])
  IN IF sel = "" \/ sel = ScanFirst THEN Raise("Select a model")
     ELSE IF i = 0 THEN Raise("Model not found")
     ELSE IF models[i].repo_id \in {NoRepo, ""}
          THEN Raise("No repository found")
     ELSE Return(models[i].repo_id, models[i].filename, models[i].local_path)

\* the filenames that models resolves
ResolvedNames(models) ==
  {models[i].filename : i \in {j \in 1..Len(models) :
                                 Select(models, models[j].filename)[1] = "return"}}

\* the lookups of the last full cycle that returned a repo_id for filename
\* sel, as indices into its batch
ResolvedBy(hist, sel) ==
  {i \in 1..Len(hist.log) : hist.batch[i].filename = sel
                             /\ hist.log[i] \in Repos}

\* lines 73-88: the full-cycle branch up to the wait for scan_workflow
ProcessScan(prompt, sel) ==
  LET hash == GetWorkflowHash(prompt)
      workflow_changed == hash # last_workflow_hash
  IN /\ pc = "idle"
     /\ NeedsScan(sel, workflow_changed)
     /\ pc' = "scanWait"
     /\ current_hash' = hash
     /\ queue' = Submit(queue, Task("scan", <<>>))
     /\ fut' = Pending
     /\ result' = NoResult
     /\ waited' = 0
     /\ elapsed' = 0
     /\ h' = [NoHistory EXCEPT
               !.path = "cycle", !.submitted = 1,
               !.changed = workflow_changed,
               !.selKnown = (Select(missing_models, sel)[1] = "return"),
               !.again = (h.path = "cycle" /\ h.since = 0 /\ h.hash = hash
                          /\ ResolvedBy(h, sel) # {}),
               !.known = IF /\ h.path = "cycle" /\ h.since = 0
                            /\ h.hash = last_workflow_hash /\ h.hash # hash
                         THEN ResolvedNames(missing_models) ELSE {}]
     /\ UNCHANGED <<cache, running>>

\* lines 88-115: the scan result arrives (or the wait gives up), the list is
\* deduplicated and the lookup batch is submitted
AfterScan(timedOut) ==
  LET scanned == OrEmpty(WaitResult(timedOut))
      unique_models == UniqueModels(scanned, {})
  IN /\ missing_models' = unique_models
     /\ queue' = Submit(IF timedOut THEN CancelQueue ELSE queue,
                        Task("search", unique_models))
     /\ running' = IF timedOut THEN CancelRunning ELSE running
     /\ fut' = Pending
     /\ pc' = "searchWait"
     /\ waited' = 0
     /\ h' = [h EXCEPT !.submitted = 2, !.scanTimedOut = timedOut,
                       !.dups = (unique_models # scanned)]
     /\ UNCHANGED <<initialized, last_workflow_hash, current_hash,
                    result, elapsed>>

ScanWaitDone == pc = "scanWait" /\ fut.done /\ AfterScan(FALSE)

ScanWaitTimeout == pc = "scanWait" /\ ~fut.done /\ AfterScan(TRUE)

\* a full cycle without the check of line 125
CycleResultUnguarded(models, notifyOk) ==
  IF models # <<>> /\ ~notifyOk THEN Raise("send_sync")
  ELSE IF models = <<>> THEN Raise("list index out of range")
  ELSE Return(models[1].repo_id, models[1].filename, models[1].local_path)

\* lines 125-143: what the full cycle returns or raises
CycleResult(models, notifyOk) ==
  IF models = <<>> THEN Return(NoValidModels, "", "")
  ELSE IF ~notifyOk THEN Raise("send_sync")
  ELSE Return(models[1].repo_id, models[1].filename, models[1].local_path)

\* lines 115-143: the lookup result arrives (or the wait gives up);
\* notifyOk says whether PromptServer.instance.send_sync returns or raises
AfterSearch(timedOut, notifyOk) ==
  LET valid_models == OrEmpty(WaitResult(timedOut))
      updated == IF valid_models = <<>> THEN <<>>
                 ELSE UpdateModelList(valid_models, valid_models, 1, TRUE)
      hist == [h EXCEPT !.searchTimedOut = timedOut, !.hash = current_hash,
                        !.batch = missing_models,
                        !.log = IF timedOut THEN <<>> ELSE fut.log,
                        !.late = FALSE, !.since = 0]
  IN /\ pc' = "idle"
     /\ waited' = 0
     /\ queue' = IF timedOut THEN CancelQueue ELSE queue
     /\ fut' = Pending
     /\ missing_models' = updated
     /\ result' = CycleResult(updated, notifyOk)
     /\ last_workflow_hash' = IF valid_models # <<>> /\ notifyOk
                              THEN current_hash ELSE last_workflow_hash
     /\ h' = [hist EXCEPT !.notifyFailed = (valid_models # <<>> /\ ~notifyOk)]
     /\ running' = IF timedOut THEN CancelRunning ELSE running
     /\ UNCHANGED <<initialized, current_hash, elapsed>>

SearchWaitDone == pc = "searchWait" /\ fut.done
                  /\ \E notifyOk \in BOOLEAN : AfterSearch(FALSE, notifyOk)

SearchWaitTimeout == pc = "searchWait" /\ ~fut.done
                     /\ \E notifyOk \in BOOLEAN : AfterSearch(TRUE, notifyOk)

ProcessSelect(prompt, sel) ==
  LET hash == GetWorkflowHash(prompt)
      workflow_changed == hash # last_workflow_hash
  IN /\ pc = "idle"
     /\ ~NeedsScan(sel, workflow_changed)
     /\ current_hash' = hash
     /\ result' = Select(missing_models, sel)
     /\ elapsed' = 0
     /\ h' = IF h.path = "cycle" /\ h.since = 0
             THEN [h EXCEPT !.path = "select", !.submitted = 0, !.sel = sel,
                            !.changed = workflow_changed,
                            !.selKnown = FALSE, !.again = FALSE,
                            !.since = 1]
             ELSE [NoHistory EXCEPT !.path = "select", !.sel = sel,
                                    !.changed = workflow_changed,
                                    !.late = h.late]
     /\ UNCHANGED <<cache, pc, exec, waited>>

(* --------------------------- executor thread --------------------------- *)
\* the worker thread of ThreadPoolExecutor(max_workers=1) takes the next task
WorkerStart ==
  /\ running.kind = "idle"
  /\ queue # <<>>
  /\ running' = Head(queue)
  /\ queue' = Tail(queue)
  /\ UNCHANGED <<cache, main, fut, clock, h>>

\* run_in_thread returns (lines 56-61): the future is completed; only a
\* waiter that has not given up sees the value
Finish(ret, log) ==
  /\ running' = Idle
  /\ fut' = IF running.awaited THEN [done |-> TRUE, ret |-> ret, log |-> log]
            ELSE fut
  /\ h' = IF running.awaited THEN h ELSE [h EXCEPT !.late = TRUE]

\* scan_workflow(prompt) returns a list, or raises (caught at line 59)
ScanRun(ret) ==
  /\ running.kind = "scan"
  /\ Finish(ret, <<>>)
  /\ UNCHANGED <<cache, main, queue, clock>>

\* one turn of the loop of search_models_async, lines 104-111; the dicts of
\* models_list are the dicts of self.missing_models while the main thread
\* waits for this task
SearchStep(outcome) ==
  LET i == running.idx
      log == Append(running.log, outcome)
  IN /\ running.kind = "search"
     /\ i <= Len(running.models)
     /\ IF outcome = "raise"
        THEN /\ Finish(NoneV, log)
             /\ UNCHANGED missing_models
        ELSE IF outcome = "none"
        THEN /\ running' = [running EXCEPT !.idx = i + 1, !.log = log]
             /\ UNCHANGED <<missing_models, fut, h>>
        ELSE /\ running' = [running EXCEPT !.idx = i + 1, !.log = log,
                                           !.models[i].repo_id = outcome,
                                           !.results = Append(@, i)]
             /\ missing_models' =
                  IF running.awaited
                  THEN [missing_models EXCEPT ![i].repo_id = outcome]
                  ELSE missing_models
             /\ UNCHANGED <<fut, h>>
     /\ UNCHANGED <<initialized, last_workflow_hash, main, queue, clock>>

\* "return results", line 112
SearchReturn ==
  /\ running.kind = "search"
  /\ running.idx > Len(running.models)
  /\ Finish(Value([k \in 1..Len(running.results) |->
                     running.models[running.results[k]]]), running.log)
  /\ UNCHANGED <<cache, main, queue, clock>>

(* ----------------------- serialize / deserialize ----------------------- *)
\* a blob that leaves out the flag
SerializeWithoutFlag == [missing_models |-> missing_models,
                         last_workflow_hash |-> last_workflow_hash]

\* lines 209-216
Serialize == [missing_models |-> missing_models,
              initialized |-> initialized,
              last_workflow_hash |-> last_workflow_hash]

\* data.get(key, default) on a blob given as a record
Get(data, key, default) == IF key \in DOMAIN data THEN data[key] ELSE default

\* lines 218-222
Deserialize(data) ==
  /\ missing_models' = Get(data, "missing_models", <<>>)
  /\ initialized' = Get(data, "initialized", FALSE)
  /\ last_workflow_hash' = Get(data, "last_workflow_hash", NoHash)

\* the host saves the node and restores it from what it saved
RoundTrip ==
  /\ pc = "idle"
  /\ Deserialize(Serialize)
  /\ result' = NoResult
  /\ h' = [NoHistory EXCEPT !.path = "roundtrip", !.dups = h.dups,
                            !.late = h.late]
  /\ UNCHANGED <<pc, current_hash, exec, clock>>

\* the host restores the node from a blob saved elsewhere, at a moment when
\* the executor has nothing to do
Blobs == {[missing_models |-> l, initialized |-> i, last_workflow_hash |-> x] :
            l \in UNION {[1..n -> BlobEntries] : n \in 0..MaxBlob},
            i \in BOOLEAN,
            x \in {NoHash, GetWorkflowHash([n \in {1} |-> "CheckpointLoaderSimple"])}}

\* blobs of an older schema: a subset of the keys
PartialBlobs ==
  LET full == [missing_models |-> <<[filename |-> "b.safetensors",
                                     local_path |-> "checkpoints",
                                     repo_id |-> "org/r2"]>>,
               initialized |-> TRUE,
               last_workflow_hash |->
                 GetWorkflowHash([n \in {1} |-> "CheckpointLoaderSimple"])]
  IN {[k \in S |-> full[k]] : S \in (SUBSET DOMAIN full) \ {DOMAIN full}}

\* blobs of the wrong shape: a value that is not a dict, and a dict whose
\* last_workflow_hash is a number
InvalidBlobs ==
  {NotADict,
   [missing_models |-> <<>>, initialized |-> FALSE,
    last_workflow_hash |-> <<"int", 5>>]}

\* deserialize(data), lines 218-222: data.get raises AttributeError on a
\* value that is not a dict, before anything is assigned
Restore(data) ==
  /\ pc = "idle"
  /\ running = Idle
  /\ queue = <<>>
  /\ IF IsDict(data)
     THEN Deserialize(data) /\ result' = NoResult
     ELSE UNCHANGED cache /\ result' = Raise("AttributeError")
  /\ h' = [NoHistory EXCEPT !.path = "restore", !.late = h.late,
                            !.blob = data]
  /\ UNCHANGED <<pc, current_hash, exec, clock>>

(* ------------------------------- clock --------------------------------- *)
Min(a, b) == IF a < b THEN a ELSE b

\* a wait without a timeout
TickForever ==
  /\ pc \in {"scanWait", "searchWait"}
  /\ ~fut.done
  /\ waited' = waited + TickStep
  /\ elapsed' = elapsed + TickStep
  /\ UNCHANGED <<cache, main, exec, h>>

\* time passes while the main thread is blocked in future.result(timeout=60)
\* and the future is not completed; the wait cannot last longer than Timeout
Tick ==
  /\ pc \in {"scanWait", "searchWait"}
  /\ ~fut.done
  /\ waited < Timeout
  /\ waited' = Min(waited + TickStep, Timeout)
  /\ elapsed' = elapsed + (waited' - waited)
  /\ UNCHANGED <<cache, main, exec, h>>

\* the timeout of future.result(timeout=60) fires when the time is up
ScanWaitExpire == waited = Timeout /\ ScanWaitTimeout

SearchWaitExpire == waited = Timeout /\ SearchWaitTimeout

(* ---------------------------- specification ---------------------------- *)
Steps ==
  \/ \E prompt \in Prompts, sel \in Selections : ProcessScan(prompt, sel)
  \/ \E prompt \in Prompts, sel \in Selections : ProcessSelect(prompt, sel)
  \/ ScanWaitDone
  \/ SearchWaitDone
  \/ WorkerStart
  \/ \E ret \in {Value(l) : l \in ScanLists} \cup {NoneV} : ScanRun(ret)
  \/ \E outcome \in LookupOutcomes : SearchStep(outcome)
  \/ SearchReturn
  \/ RoundTrip

\* time abstracted away: a wait may give up at any moment before its future
\* is completed
Next == Steps \/ ScanWaitTimeout \/ SearchWaitTimeout

Spec == Init /\ [][Next]_vars

\* with the clock: a wait gives up exactly when Timeout has passed
NextTimed == Steps \/ Tick \/ ScanWaitExpire \/ SearchWaitExpire

SpecTimed == Init /\ [][NextTimed]_vars

\* with blobs that were not saved by this node
NextBlob == Next \/ \E data \in Blobs : Restore(data)

SpecBlob == Init /\ [][NextBlob]_vars

\* _update_model_list(models) on its own, lines 182-194, with a list that is
\* not self.missing_models
Merge(models) ==
  /\ h.path = "none"
  /\ missing_models' = UpdateModelList(missing_models, models, 1, FALSE)
  /\ h' = [NoHistory EXCEPT !.path = "merge", !.prior = missing_models,
                            !.batch = models]
  /\ UNCHANGED <<initialized, last_workflow_hash, main, exec, clock>>

\* _update_model_list(self.missing_models), the call of line 128
MergeSelf ==
  /\ h.path = "none"
  /\ missing_models' = UpdateModelList(missing_models, missing_models, 1, TRUE)
  /\ h' = [NoHistory EXCEPT !.path = "mergeSelf", !.prior = missing_models,
                            !.batch = missing_models]
  /\ UNCHANGED <<initialized, last_workflow_hash, main, exec, clock>>

MergeEntries ==
  {[Scanned(ref) EXCEPT !.repo_id = repo] :
     ref \in Refs, repo \in {NoRepo, "org/r1"}}

MergeLists == UNION {[1..n -> MergeEntries] : n \in 0..MaxMerge}

\* the cache and the argument of _update_model_list drawn from MergeLists
InitMerge ==
  /\ missing_models \in MergeLists
  /\ initialized = FALSE
  /\ last_workflow_hash = NoHash
  /\ pc = "idle"
  /\ current_hash = NoHash
  /\ fut = Pending
  /\ queue = <<>>
  /\ running = Idle
  /\ result = NoResult
  /\ waited = 0
  /\ elapsed = 0
  /\ h = NoHistory

NextMerge == MergeSelf \/ \E models \in MergeLists : Merge(models)

SpecMerge == InitMerge /\ [][NextMerge]_vars

\* with blobs of an older schema and blobs of the wrong shape as well
NextForeign ==
  NextBlob \/ \E data \in PartialBlobs \cup InvalidBlobs : Restore(data)

SpecForeign == Init /\ [][NextForeign]_vars

(* ------------------------------ properties ----------------------------- *)
\* the last operation was a full cycle of process() and it has returned
AtCycleReturn == pc = "idle" /\ h.path = "cycle"

SameIdentity(m, n) == m.filename = n.filename /\ m.local_path = n.local_path

EmptyTriple == Return(NoValidModels, "", "")

Triple(m) == Return(m.repo_id, m.filename, m.local_path)

\* C1: when the wait for the lookup batch did not time out, every reference
\* whose lookup returned a repo_id is in the resolved set that process()
\* stored, also when the lookup of another reference of the batch raised.
C1_LookupFailureIsolated ==
  (AtCycleReturn /\ ~h.searchTimedOut) =>
    \A i \in 1..Len(h.log) :
      h.log[i] \in Repos =>
        \E j \in 1..Len(missing_models) :
          SameIdentity(missing_models[j], h.batch[i])

\* C2: a full cycle whose wait for the lookup batch timed out returns the
\* empty-result triple and stores the empty list, and this stays so while the
\* task that was left running goes on and completes.
C2_TimeoutResolvesNothing ==
  (AtCycleReturn /\ h.searchTimedOut) =>
    (result = EmptyTriple /\ missing_models = <<>>)

\* the scan of the call was delivered, the wait for its lookup batch timed
\* out, and the lookup task completed after process() had returned
C2_Witness ==
  /\ AtCycleReturn /\ h.searchTimedOut /\ ~h.scanTimedOut
  /\ h.batch # <<>> /\ h.late /\ running = Idle

\* C3 as stated: a call whose wait for the lookup batch timed out has
\* returned within Timeout, measured from the start of the call.
C3_ReturnsWithinTimeout ==
  (AtCycleReturn /\ h.searchTimedOut) => elapsed <= Timeout

\* C3 as amended: each of the two waits of a call lasts at most Timeout, so
\* the call is never blocked for more than twice Timeout in all: Timeout for
\* the scan and Timeout for the lookup batch.
C3_ReturnsWithinTwoTimeouts ==
  /\ waited <= Timeout
  /\ elapsed <= 2 * Timeout
  /\ pc = "scanWait" => elapsed = waited
  /\ pc = "searchWait" => elapsed - waited <= Timeout

\* both waits of one call ran into the timeout
C3_Witness ==
  AtCycleReturn /\ h.scanTimedOut /\ h.searchTimedOut
  /\ elapsed = 2 * Timeout

\* C4: every full cycle ends with last_workflow_hash equal to the
\* fingerprint of the graph it was called with.
C4_CycleRecordsFingerprint ==
  AtCycleReturn => last_workflow_hash = current_hash

\* C5: when a full cycle resolved filename f (local path p) to repo r, the
\* next call with the same fingerprint and selection f submits no task and
\* returns (r, f, p).
C5_SelectionAfterCycle ==
  /\ h.path = "cycle" => ~h.again
  /\ (pc = "idle" /\ h.path = "select" /\ h.since = 1
      /\ h.hash = current_hash) =>
       \A i \in ResolvedBy(h, h.sel) :
         /\ h.submitted = 0
         /\ result = Return(h.log[i], h.sel, h.batch[i].local_path)

\* C6: a call whose fingerprint differs from last_workflow_hash takes the
\* full-cycle branch, submits the scan and the lookup batch, and what it
\* returns is decided by the list of that cycle alone: the empty-result
\* triple, the triple of its first entry, or the failure of send_sync.
C6_ChangedGraphRescans ==
  /\ h.changed => (h.path = "cycle" /\ h.submitted >= 1)
  /\ (AtCycleReturn /\ h.changed) =>
       /\ h.submitted = 2
       /\ \/ missing_models = <<>> /\ result = EmptyTriple
          \/ missing_models # <<>> /\ result = Triple(missing_models[1])
          \/ missing_models # <<>> /\ result = Raise("send_sync")

\* the graph had changed, the requested selection was a resolved entry of the
\* cache, and the call returned the first entry of a fresh cycle
C6_Witness ==
  /\ AtCycleReturn /\ h.changed /\ h.selKnown
  /\ missing_models # <<>> /\ result = Triple(missing_models[1])

\* C7: a full cycle whose resolved set is empty returns the triple
\* ("No valid models found", "", "") and raises nothing.
C7_EmptyCycleReturnsPlaceholder ==
  (AtCycleReturn /\ missing_models = <<>>) => result = EmptyTriple

\* an empty resolved set because a lookup raised after the scan had found
\* references
C7_Witness ==
  /\ AtCycleReturn /\ missing_models = <<>> /\ h.batch # <<>>
  /\ ~h.searchTimedOut /\ h.log # <<>> /\ h.log[Len(h.log)] = "raise"

\* C8: on the selection branch with selection f, process() raises "Model not
\* found" when no entry has filename f, raises "No repository found" when
\* the first entry with filename f has no repo_id, and what it returns is the
\* triple of an entry with filename f whose repo_id is present.
C8_SelectionErrors ==
  (pc = "idle" /\ h.path = "select") =>
    LET hits == {i \in 1..Len(missing_models) :
                   missing_models[i].filename = h.sel}
    IN /\ hits = {} => result = Raise("Model not found")
       /\ \A i \in hits :
            ((\A j \in hits : i <= j) /\ missing_models[i].repo_id = NoRepo)
              => result = Raise("No repository found")
       /\ result[1] = "return" =>
            \E i \in hits : /\ missing_models[i].repo_id # NoRepo
                            /\ result = Triple(missing_models[i])

\* the selection met an unresolved entry although a resolved entry with the
\* same filename is in the cache
C8_Witness ==
  /\ pc = "idle" /\ h.path = "select"
  /\ result = Raise("No repository found")
  /\ \E i \in 1..Len(missing_models) :
       missing_models[i].filename = h.sel /\ missing_models[i].repo_id # NoRepo

C10_NoDuplicateIdentity ==
  \A i, j \in 1..Len(missing_models) :
    SameIdentity(missing_models[i], missing_models[j]) => i = j

\* a scan that returned duplicates, at least two entries stored, and a round
\* trip through serialize and deserialize after it
C10_Witness ==
  /\ pc = "idle" /\ h.path = "roundtrip" /\ h.dups
  /\ Len(missing_models) >= 2

\* C11: serialize captures exactly missing_models, initialized and
\* last_workflow_hash, and deserialize(serialize()) leaves the three fields
\* as they were: same entries in the same order with the same repo_ids, same
\* flag, same fingerprint.
C11_RoundTripPreservesCache ==
  /\ [](DOMAIN Serialize =
          {"missing_models", "initialized", "last_workflow_hash"})
  /\ [][RoundTrip => /\ missing_models' = missing_models
                     /\ initialized' = initialized
                     /\ last_workflow_hash' = last_workflow_hash]_vars

\* a round trip of a cache with the flag set, a fingerprint, and both a
\* resolved and an unresolved entry
C11_Witness ==
  /\ h.path = "roundtrip" /\ initialized /\ last_workflow_hash # NoHash
  /\ \E i, j \in 1..Len(missing_models) :
       missing_models[i].repo_id = NoRepo /\ missing_models[j].repo_id # NoRepo

\* C12: deserialize of a dict with missing keys raises nothing and sets the
\* field of every missing key to its default; deserialize of a blob of the
\* wrong shape raises an error and leaves the cache empty.
C12_DeserializeDefensive ==
  (pc = "idle" /\ h.path = "restore") =>
    /\ h.blob \in PartialBlobs =>
         /\ result = NoResult
         /\ "missing_models" \notin DOMAIN h.blob => missing_models = <<>>
         /\ "initialized" \notin DOMAIN h.blob => initialized = FALSE
         /\ "last_workflow_hash" \notin DOMAIN h.blob
              => last_workflow_hash = NoHash
    /\ h.blob \in InvalidBlobs =>
         /\ result[1] = "raise"
         /\ missing_models = <<>>
         /\ initialized = FALSE
         /\ last_workflow_hash = NoHash

Present(m, models) ==
  \E i \in 1..Len(models) : SameIdentity(m, models[i])

\* C13: after _update_model_list(X) every (filename, local_path) of X is in
\* self.missing_models, and every entry that was there before is still there.
C13_MergeKeepsAndAdds ==
  h.path = "merge" =>
    /\ \A k \in 1..Len(h.batch) : Present(h.batch[k], missing_models)
    /\ Len(missing_models) >= Len(h.prior)
    /\ \A i \in 1..Len(h.prior) : SameIdentity(h.prior[i], missing_models[i])

\* C17: _update_model_list changes the repo_id of an entry only when X holds
\* an entry with the same filename and the same local_path.
C17_MergeMatchesIdentity ==
  h.path = "merge" =>
    \A i \in 1..Len(h.prior) :
      missing_models[i].repo_id # h.prior[i].repo_id
        => Present(h.prior[i], h.batch)

\* graphs that differ only by nodes of the resolver's own type
DiffersOnlyByResolver(p, q) ==
  \A k \in DOMAIN p \cup DOMAIN q :
    \/ k \in DOMAIN p /\ k \in DOMAIN q /\ p[k] = q[k]
    \/ k \in DOMAIN p /\ k \notin DOMAIN q /\ p[k] = ResolverType
    \/ k \in DOMAIN q /\ k \notin DOMAIN p /\ q[k] = ResolverType

\* C14: graphs that differ only by resolver nodes have the same hash, and
\* process() with a selection the cache resolves, on a graph that differs
\* only by resolver nodes from the graph of the full cycle before it, does
\* not take the full-cycle branch.  The graph of the full cycle before it is
\* a graph whose hash is current_hash.
C14_ResolverNodesIgnored ==
  /\ [](\A p, q \in Prompts :
         DiffersOnlyByResolver(p, q)
           => GetWorkflowHash(p) = GetWorkflowHash(q))
  /\ [][\A scanned \in Prompts, prompt \in Prompts, sel \in Filenames :
          (/\ AtCycleReturn
           /\ ~h.scanTimedOut
           /\ GetWorkflowHash(scanned) = current_hash
           /\ DiffersOnlyByResolver(scanned, prompt)
           /\ Select(missing_models, sel)[1] = "return")
            => ~ProcessScan(prompt, sel)]_vars

\* a step of the executor thread: the running task changes and the main
\* thread stays where it is
WorkerStep == running' # running /\ pc' = pc

\* C15: no step of the executor thread changes self.missing_models or an
\* entry of it.
C15_WorkerLeavesCacheAlone ==
  [][WorkerStep => missing_models' = missing_models]_vars

\* C16: self.initialized is False after __init__, and True (in the object
\* and in what serialize returns) once a full cycle has returned a resolved
\* entry.
C16_InitializedAfterCycle ==
  /\ h.path = "none" => ~initialized
  /\ (AtCycleReturn /\ result[1] = "return" /\ result # EmptyTriple)
       => initialized /\ Serialize.initialized

\* C18 as stated: process() on an unchanged graph with select_model "Scan
\* First" or empty raises "Select a model".
C18_SentinelIsValidationError ==
  (AtCycleReturn /\ ~h.changed) => result = Raise("Select a model")

\* C18, amended: process() with select_model "Scan First" or empty never
\* takes the selection branch, also on an unchanged graph, and no process()
\* raises "Select a model".
C18_SentinelRescans ==
  /\ h.path = "select" => h.sel \notin {ScanFirst, ""}
  /\ result # Raise("Select a model")

\* a full cycle on an unchanged graph that returned a resolved entry
C18_Witness ==
  /\ AtCycleReturn /\ ~h.changed
  /\ result[1] = "return" /\ result # EmptyTriple
  /\ last_workflow_hash = current_hash

\* C19: when a full cycle on another graph returns and last_workflow_hash is
\* still the hash of the graph of the cycle before it, the cache still
\* resolves every filename it resolved then; and process() on the graph of
\* last_workflow_hash with such a filename does not raise "Model not found".
C19_CacheCoherent ==
  /\ (AtCycleReturn /\ last_workflow_hash # current_hash)
       => h.known \subseteq ResolvedNames(missing_models)
  /\ (pc = "idle" /\ h.path = "select" /\ h.hash # current_hash
      /\ h.sel \in h.known)
       => result # Raise("Model not found")

\* C20: the executor runs one task at a time.  The queue holds at most the
\* task the main thread is waiting for; a task starts only from the head of
\* the queue and only when no task is running; a running task is followed
\* by nothing but its own next step, the loss of its waiter, or its end.  So
\* a task submitted behind an abandoned task waits for it, and a task
\* cancelled in the queue is gone from the queue and never starts.
C20_WorkerSerialized ==
  /\ [](/\ Len(queue) <= 1
        /\ queue # <<>> =>
             /\ pc \in {"scanWait", "searchWait"}
             /\ queue[1].awaited
             /\ queue[1].kind = (IF pc = "scanWait" THEN "scan" ELSE "search"))
  /\ [][(running.kind = "idle" /\ running' # running)
          => (queue # <<>> /\ running' = Head(queue) /\ queue' = Tail(queue))]_vars
  /\ [][(running.kind # "idle" /\ running' # running)
          => \/ running' = Idle
             \/ running' = [running EXCEPT !.awaited = FALSE]
             \/ running'.kind = running.kind /\ running'.idx = running.idx + 1]_vars

\* a lookup batch waits in the queue behind the abandoned lookup task of an
\* earlier call, after the scan of this call timed out in the queue and was
\* cancelled there
C20_Witness ==
  /\ pc = "searchWait" /\ h.scanTimedOut
  /\ running.kind = "search" /\ ~running.awaited
  /\ queue # <<>>
====
